---- MODULE Spec2Model ----
(***************************************************************************)
(* The cart store of the storefront: the reducer of CartContext.tsx, the   *)
(* CartProvider around it (hydration on mount, save effect, the public     *)
(* actions) and the AsyncStorage wrapper of storage.ts it persists with.   *)
(* Prices are kept in cents, so that sums are exact.                       *)
(* Around the store: the card validation of validation.ts, the checkout    *)
(* screen, the retry helper, the useCustomAlert hook with the CustomAlert  *)
(* component, and the ThemeProvider.                                       *)
(***************************************************************************)
EXTENDS Integers, Sequences, FiniteSets, TLC

VARIABLES
    state,          \* CartState held by useReducer: items, totalItems, totalPrice, isLoading
    storageCart,    \* what AsyncStorage holds under STORAGE_KEYS.CART
    pendingWrites,  \* AsyncStorage.setItem calls issued and not yet settled, oldest first
    loadPc,         \* position of the mount effect's loadCart: "pending" or "done"
    lastOp,         \* history: the step taken last, with its arguments
    prev,           \* history: the CartState that step started from
    logged,         \* history: what that step passed to logError ("none" if nothing)
    cardNumber,     \* the text handed to validation.creditCard, one character per entry
    cardResult,     \* the ValidationResult it returned
    formData,       \* CheckoutScreen: the form's fields
    checkout,       \* CheckoutScreen: isProcessing, position of handlePlaceOrder, mounted
    router,         \* the router.replace calls made, oldest first
    alert,          \* useCustomAlert: alertConfig, isVisible, the timers of hideAlert
    retryRun,       \* one call of retry: its arguments, position and counters
    theme           \* ThemeProvider: mode, the stored preference, its load and its saves

cartVars == <<state, storageCart, pendingWrites, loadPc>>

screenVars == <<cardNumber, cardResult, formData, checkout, router, alert, retryRun, theme>>

vars == <<state, storageCart, pendingWrites, loadPc, lastOp, prev, logged,
          cardNumber, cardResult, formData, checkout, router, alert, retryRun, theme>>

-----------------------------------------------------------------------------
(* Bounds *)

\* largest quantity a line is driven to
MaxQty == 2

\* largest number of AsyncStorage.setItem calls in flight
MaxPending == 1

\* largest number of hideAlert timers running at once
MaxTimers == 2

\* largest maxRetries retry is called with
MaxRetries == 3

-----------------------------------------------------------------------------
(* Products (data/products.ts): id, price in cents, inStock *)

Product(id, price, inStock) == [id |-> id, price |-> price, inStock |-> inStock]

\* the products the full store is driven with: two in stock, one out of stock
Products ==
    { Product("1", 12999, TRUE), Product("2", 15999, TRUE), Product("8", 8999, FALSE) }

\* the products the reducer is driven with: three in stock, one out of stock
ProductsWide == Products \cup { Product("3", 9999, TRUE) }

\* the one product the hydration runs are driven with
ProductsOne == { Product("1", 12999, TRUE) }

ProductIds(ps) == { p.id : p \in ps }

-----------------------------------------------------------------------------
(* CartContext.tsx: state and reducer *)

CartItem(product, quantity) == [product |-> product, quantity |-> quantity]

initialState ==
    [items |-> << >>, totalItems |-> 0, totalPrice |-> 0, isLoading |-> TRUE]

\* items.reduce((sum, item) => sum + item.quantity, 0)
RECURSIVE reduceQuantity(_)
reduceQuantity(items) ==
    IF items = << >> THEN 0
    ELSE reduceQuantity(SubSeq(items, 1, Len(items) - 1)) + items[Len(items)].quantity

\* items.reduce((sum, item) => sum + item.product.price * item.quantity, 0)
RECURSIVE reducePrice(_)
reducePrice(items) ==
    IF items = << >> THEN 0
    ELSE reducePrice(SubSeq(items, 1, Len(items) - 1))
            + items[Len(items)].product.price * items[Len(items)].quantity

\* items.filter((item) => item.product.id !== productId)
RECURSIVE filterOut(_, _)
filterOut(items, productId) ==
    IF items = << >> THEN << >>
    ELSE IF Head(items).product.id # productId
         THEN << Head(items) >> \o filterOut(Tail(items), productId)
         ELSE filterOut(Tail(items), productId)

\* items.some((item) => item.product.id === productId)
hasItem(items, productId) == \E i \in DOMAIN items : items[i].product.id = productId

withTotals(st, newItems) ==
    [st EXCEPT !.items = newItems,
               !.totalItems = reduceQuantity(newItems),
               !.totalPrice = reducePrice(newItems)]

\* ADD_ITEM without the lookup of an existing line
ADD_ITEM_AlwaysAppend(st, payload) ==
    withTotals(st, Append(st.items, CartItem(payload, 1)))

ADD_ITEM(st, payload) ==
    LET newItems ==
            IF hasItem(st.items, payload.id)
            THEN [i \in DOMAIN st.items |->
                    IF st.items[i].product.id = payload.id
                    THEN [st.items[i] EXCEPT !.quantity = @ + 1]
                    ELSE st.items[i]]
            ELSE Append(st.items, CartItem(payload, 1))
    IN  withTotals(st, newItems)

\* items.filter((item) => item.product.id === productId)
RECURSIVE filterOnly(_, _)
filterOnly(items, productId) ==
    IF items = << >> THEN << >>
    ELSE IF Head(items).product.id = productId
         THEN << Head(items) >> \o filterOnly(Tail(items), productId)
         ELSE filterOnly(Tail(items), productId)

\* REMOVE_ITEM with the filter's comparison inverted
REMOVE_ITEM_KeepsMatch(st, payload) == withTotals(st, filterOnly(st.items, payload))

\* REMOVE_ITEM that forgets to recompute totalPrice
REMOVE_ITEM_StalePrice(st, payload) ==
    [st EXCEPT !.items = filterOut(st.items, payload),
               !.totalItems = reduceQuantity(filterOut(st.items, payload))]

REMOVE_ITEM(st, payload) == withTotals(st, filterOut(st.items, payload))

\* UPDATE_QUANTITY that removes only below zero
UPDATE_QUANTITY_ZeroKept(st, productId, quantity) ==
    IF quantity < 0
    THEN REMOVE_ITEM(st, productId)
    ELSE withTotals(st,
            [i \in DOMAIN st.items |->
                IF st.items[i].product.id = productId
                THEN [st.items[i] EXCEPT !.quantity = quantity]
                ELSE st.items[i]])

\* UPDATE_QUANTITY that adds the quantity to the line's
UPDATE_QUANTITY_Additive(st, productId, quantity) ==
    IF quantity <= 0
    THEN REMOVE_ITEM(st, productId)
    ELSE withTotals(st,
            [i \in DOMAIN st.items |->
                IF st.items[i].product.id = productId
                THEN [st.items[i] EXCEPT !.quantity = @ + quantity]
                ELSE st.items[i]])

\* UPDATE_QUANTITY that creates the line when there is none
UPDATE_QUANTITY_Upsert(st, productId, quantity) ==
    IF quantity <= 0
    THEN REMOVE_ITEM(st, productId)
    ELSE IF hasItem(st.items, productId)
    THEN withTotals(st,
            [i \in DOMAIN st.items |->
                IF st.items[i].product.id = productId
                THEN [st.items[i] EXCEPT !.quantity = quantity]
                ELSE st.items[i]])
    ELSE withTotals(st,
            Append(st.items,
                   CartItem([id |-> productId, price |-> 0, inStock |-> TRUE], quantity)))

UPDATE_QUANTITY(st, productId, quantity) ==
    IF quantity <= 0
    THEN REMOVE_ITEM(st, productId)
    ELSE withTotals(st,
            [i \in DOMAIN st.items |->
                IF st.items[i].product.id = productId
                THEN [st.items[i] EXCEPT !.quantity = quantity]
                ELSE st.items[i]])

\* CLEAR_CART that returns initialState
CLEAR_CART_ToInitialState(st) == initialState

\* CLEAR_CART that empties the items and leaves the totals
CLEAR_CART_KeepsTotals(st) == [st EXCEPT !.items = << >>]

CLEAR_CART(st) == [st EXCEPT !.items = << >>, !.totalItems = 0, !.totalPrice = 0]

LOAD_CART(st, payload) ==
    [items |-> payload,
     totalItems |-> reduceQuantity(payload),
     totalPrice |-> reducePrice(payload),
     isLoading |-> FALSE]

\* a reducer without the SET_LOADING case
SET_LOADING_Unhandled(st, payload) == st

SET_LOADING(st, payload) == [st EXCEPT !.isLoading = payload]

cartReducer(st, action) ==
    CASE action.type = "ADD_ITEM" -> ADD_ITEM(st, action.payload)
      [] action.type = "REMOVE_ITEM" -> REMOVE_ITEM(st, action.payload)
      [] action.type = "UPDATE_QUANTITY" ->
            UPDATE_QUANTITY(st, action.payload.productId, action.payload.quantity)
      [] action.type = "CLEAR_CART" -> CLEAR_CART(st)
      [] action.type = "LOAD_CART" -> LOAD_CART(st, action.payload)
      [] action.type = "SET_LOADING" -> SET_LOADING(st, action.payload)
      [] OTHER -> st

-----------------------------------------------------------------------------
(* storage.ts: what is kept under the cart key, and its JSON form *)

\* JSON.stringify(items): one flat entry per line
JSONStringify(items) ==
    [i \in DOMAIN items |->
        << items[i].product.id, items[i].product.price,
           items[i].product.inStock, items[i].quantity >>]

\* JSON.parse that loses the quantity of each line
JSONParse_QuantityLost(text) ==
    [i \in DOMAIN text |-> CartItem(Product(text[i][1], text[i][2], text[i][3]), 1)]

\* JSON.parse of a text JSONStringify produced
JSONParse(text) ==
    [i \in DOMAIN text |-> CartItem(Product(text[i][1], text[i][2], text[i][3]), text[i][4])]

StoredNull == [kind |-> "null", text |-> << >>]
StoredCorrupt == [kind |-> "corrupt", text |-> << >>]
StoredJson(text) == [kind |-> "json", text |-> text]

\* storage.getItem: the value handed to loadCart; null on absence, on a rejected
\* read and on a text that does not parse
getItem(stored, readFails) ==
    IF readFails \/ stored.kind # "json"
    THEN [isNull |-> TRUE, value |-> << >>]
    ELSE [isNull |-> FALSE, value |-> JSONParse(stored.text)]

\* storage.getItem's catch block logs when the read rejects or the parse throws
getItemLogs(stored, readFails) == readFails \/ stored.kind = "corrupt"

-----------------------------------------------------------------------------
(* CartProvider: the public actions as state functions *)

\* addItem without the stock check
addItem_NoStockCheck(st, product) ==
    cartReducer(st, [type |-> "ADD_ITEM", payload |-> product])

addItem(st, product) ==
    IF ~product.inStock THEN st
    ELSE cartReducer(st, [type |-> "ADD_ITEM", payload |-> product])

removeItem(st, productId) ==
    cartReducer(st, [type |-> "REMOVE_ITEM", payload |-> productId])

\* updateQuantity without the check for a negative quantity
updateQuantity_NoNegativeCheck(st, productId, quantity) ==
    cartReducer(st, [type |-> "UPDATE_QUANTITY",
                     payload |-> [productId |-> productId, quantity |-> quantity]])

updateQuantity(st, productId, quantity) ==
    IF quantity < 0 THEN st
    ELSE cartReducer(st, [type |-> "UPDATE_QUANTITY",
                          payload |-> [productId |-> productId, quantity |-> quantity]])

clearCart(st) == cartReducer(st, [type |-> "CLEAR_CART"])

\* getItemQuantity that reads the first line instead of the matching one
getItemQuantity_FirstLine(st, productId) ==
    IF st.items # << >> THEN st.items[1].quantity ELSE 0

getItemQuantity(st, productId) ==
    IF hasItem(st.items, productId)
    THEN st.items[CHOOSE i \in DOMAIN st.items :
                    /\ st.items[i].product.id = productId
                    /\ \A j \in 1..(i - 1) : st.items[j].product.id # productId].quantity
    ELSE 0

isInCart(st, productId) == hasItem(st.items, productId)

\* a save effect without the isLoading test
saveEffect_WhileLoading(st, writes) == Append(writes, JSONStringify(st.items))

\* the save effect: runs after a render in which state.items or state.isLoading
\* changed; every dispatched cart action builds a new items array
saveEffect(st, writes) ==
    IF ~st.isLoading THEN Append(writes, JSONStringify(st.items)) ELSE writes

Op(op, id, q) == [op |-> op, id |-> id, q |-> q]

-----------------------------------------------------------------------------
(* validation.ts: texts are sequences of one-character strings *)

DigitChars == << "0", "1", "2", "3", "4", "5", "6", "7", "8", "9" >>

\* \d
IsDigit(c) == \E n \in DOMAIN DigitChars : DigitChars[n] = c

\* parseInt(c, 10) of a digit character
parseInt(c) == (CHOOSE n \in DOMAIN DigitChars : DigitChars[n] = c) - 1

\* text.replace(/\D/g, '')
digitsOnly(text) == SelectSeq(text, IsDigit)

ValidationResult(isValid, error) == [isValid |-> isValid, error |-> error]

\* { isValid: true }: no error member
Valid == ValidationResult(TRUE, "undefined")

\* the loop of creditCard from index i down, that adds the doubled digit as it is
RECURSIVE luhnSum_NoMinusNine(_, _, _)
luhnSum_NoMinusNine(cleaned, i, isEven) ==
    IF i < 1 THEN 0
    ELSE (IF isEven THEN parseInt(cleaned[i]) * 2 ELSE parseInt(cleaned[i]))
            + luhnSum_NoMinusNine(cleaned, i - 1, ~isEven)

\* the loop of creditCard: for (i = cleaned.length - 1; i >= 0; i--), from
\* index i (counted from 1) down, with the isEven flag it has on entry
RECURSIVE luhnSum(_, _, _)
luhnSum(cleaned, i, isEven) ==
    IF i < 1 THEN 0
    ELSE LET digit == parseInt(cleaned[i])
             doubled == IF digit * 2 > 9 THEN digit * 2 - 9 ELSE digit * 2
         IN  (IF isEven THEN doubled ELSE digit) + luhnSum(cleaned, i - 1, ~isEven)

creditCard(text) ==
    LET cleaned == digitsOnly(text)
    IN  IF cleaned = << >> THEN ValidationResult(FALSE, "Card number is required")
        ELSE IF Len(cleaned) < 13 \/ Len(cleaned) > 19
        THEN ValidationResult(FALSE, "Invalid card number length")
        ELSE IF luhnSum(cleaned, Len(cleaned), FALSE) % 10 # 0
        THEN ValidationResult(FALSE, "Invalid card number")
        ELSE Valid

\* the card numbers creditCard is driven with: a run of digits of each length,
\* every pair of last digits, written plain, in groups of four with spaces or
\* dashes, or with letters around it
CardLengths == {0, 1, 2, 12, 13, 14, 16, 19, 20}

CardBody == << "4", "9", "7", "0", "5", "8", "1", "6", "3", "9", "2", "5", "7", "0", "8",
               "4", "6", "1" >>

CardDigits(n, d1, d2) ==
    IF n = 0 THEN << >>
    ELSE IF n = 1 THEN << DigitChars[d2 + 1] >>
    ELSE SubSeq(CardBody, 1, n - 2) \o << DigitChars[d1 + 1], DigitChars[d2 + 1] >>

RECURSIVE Grouped(_, _)
Grouped(digits, sep) ==
    IF Len(digits) <= 4 THEN digits
    ELSE SubSeq(digits, 1, 4) \o << sep >> \o Grouped(SubSeq(digits, 5, Len(digits)), sep)

CardNumbers ==
    UNION { { CardDigits(n, d1, d2),
              Grouped(CardDigits(n, d1, d2), " "),
              Grouped(CardDigits(n, d1, d2), "-"),
              << "n", "o", "." >> \o CardDigits(n, d1, d2) \o << " ", "x" >> }
            : n \in CardLengths, d1 \in 0..9, d2 \in 0..9 }

\* value.trim(), the whitespace of the texts used here being the blank
RECURSIVE trimStart(_)
trimStart(text) ==
    IF text # << >> /\ Head(text) = " " THEN trimStart(Tail(text)) ELSE text

RECURSIVE trimEnd(_)
trimEnd(text) ==
    IF text # << >> /\ text[Len(text)] = " "
    THEN trimEnd(SubSeq(text, 1, Len(text) - 1))
    ELSE text

trim(text) == trimEnd(trimStart(text))

\* !value || value.trim() === ''
isBlank(value) == value = << >> \/ trim(value) = << >>

\* validation.required: `${fieldName} is required`
required(value, fieldName) ==
    IF isBlank(value)
    THEN ValidationResult(FALSE,
            CASE fieldName = "Full name" -> "Full name is required"
              [] fieldName = "Address" -> "Address is required"
              [] fieldName = "City" -> "City is required"
              [] fieldName = "State" -> "State is required"
              [] OTHER -> "is required")
    ELSE Valid

\* validation.length, as the checkout calls it: (value, 'Full name', 2, 100)
length(value, fieldName, min, max) ==
    IF Len(trim(value)) < min
    THEN ValidationResult(FALSE, "Full name must be at least 2 characters")
    ELSE IF Len(trim(value)) > max
    THEN ValidationResult(FALSE, "Full name must not exceed 100 characters")
    ELSE Valid

\* [^\s@]+ over text[from..to]
noSpaceNoAt(text, from, to) ==
    /\ from <= to
    /\ \A k \in from..to : text[k] \notin {" ", "@"}

\* /^[^\s@]+@[^\s@]+\.[^\s@]+$/.test(text)
emailRegex(text) ==
    \E i \in DOMAIN text : \E j \in DOMAIN text :
        /\ text[i] = "@"
        /\ text[j] = "."
        /\ noSpaceNoAt(text, 1, i - 1)
        /\ noSpaceNoAt(text, i + 1, j - 1)
        /\ noSpaceNoAt(text, j + 1, Len(text))

email(text) ==
    IF isBlank(text) THEN ValidationResult(FALSE, "Email is required")
    ELSE IF ~emailRegex(text)
    THEN ValidationResult(FALSE, "Please enter a valid email address")
    ELSE Valid

\* APP_CONFIG.validation.phoneRegex: /^[\d\s\-\+\(\)]+$/
phoneRegex(text) ==
    /\ text # << >>
    /\ \A k \in DOMAIN text : IsDigit(text[k]) \/ text[k] \in {" ", "-", "+", "(", ")"}

phone(text) ==
    IF isBlank(text) THEN ValidationResult(FALSE, "Phone number is required")
    ELSE IF ~phoneRegex(text)
    THEN ValidationResult(FALSE, "Please enter a valid phone number")
    ELSE IF Len(digitsOnly(text)) < 10
    THEN ValidationResult(FALSE, "Phone number must be at least 10 digits")
    ELSE Valid

\* APP_CONFIG.validation.zipCodeRegex: /^\d{5}(-\d{4})?$/
zipCodeRegex(text) ==
    \/ Len(text) = 5 /\ \A k \in 1..5 : IsDigit(text[k])
    \/ /\ Len(text) = 10
       /\ \A k \in 1..5 : IsDigit(text[k])
       /\ text[6] = "-"
       /\ \A k \in 7..10 : IsDigit(text[k])

zipCode(text) ==
    IF isBlank(text) THEN ValidationResult(FALSE, "Zip code is required")
    ELSE IF ~zipCodeRegex(text)
    THEN ValidationResult(FALSE, "Please enter a valid zip code")
    ELSE Valid

cvv(text) ==
    LET cleaned == digitsOnly(text)
    IN  IF cleaned = << >> THEN ValidationResult(FALSE, "CVV is required")
        ELSE IF Len(cleaned) < 3 \/ Len(cleaned) > 4
        THEN ValidationResult(FALSE, "CVV must be 3 or 4 digits")
        ELSE Valid

\* expirationDate; now is what new Date() gives: the year % 100 and the month
expirationDate(text, now) ==
    LET cleaned == digitsOnly(text)
    IN  IF cleaned = << >> \/ Len(cleaned) # 4
        THEN ValidationResult(FALSE, "Expiration date must be MM/YY format")
        ELSE LET month == parseInt(cleaned[1]) * 10 + parseInt(cleaned[2])
                 year == parseInt(cleaned[3]) * 10 + parseInt(cleaned[4])
             IN  IF month < 1 \/ month > 12
                 THEN ValidationResult(FALSE, "Invalid month")
                 ELSE IF year < now.year \/ (year = now.year /\ month < now.month)
                 THEN ValidationResult(FALSE, "Card has expired")
                 ELSE Valid

\* sanitizeInput: input.replace(/[<>]/g, '').trim()
NotAngle(c) == c \notin {"<", ">"}

sanitizeInput(input) == trim(SelectSeq(input, NotAngle))

\* the card has not been validated
NotValidated == ValidationResult(FALSE, "not validated")

-----------------------------------------------------------------------------
(* The screens and helpers around the store: their initial values *)

\* CheckoutScreen: useState<FormData>({...}), every field a text
initialFormData ==
    [fullName |-> << >>, email |-> << >>, address |-> << >>, city |-> << >>,
     state |-> << >>, zipCode |-> << >>, country |-> << "U", "S" >>, phone |-> << >>,
     cardNumber |-> << >>, expiryDate |-> << >>, cvv |-> << >>]

\* the order in which validateAllFields visits the fields
fieldsToValidate ==
    << "fullName", "email", "phone", "address", "city", "state", "zipCode",
       "cardNumber", "expiryDate", "cvv" >>

\* validateField: the result of the field's validator on formData[field]
validateField(form, field, now) ==
    CASE field = "fullName" ->
            IF required(form.fullName, "Full name").isValid
            THEN length(form.fullName, "Full name", 2, 100)
            ELSE required(form.fullName, "Full name")
      [] field = "email" -> email(form.email)
      [] field = "phone" -> phone(form.phone)
      [] field = "address" -> required(form.address, "Address")
      [] field = "city" -> required(form.city, "City")
      [] field = "state" -> required(form.state, "State")
      [] field = "zipCode" -> zipCode(form.zipCode)
      [] field = "cardNumber" -> creditCard(form.cardNumber)
      [] field = "expiryDate" -> expirationDate(form.expiryDate, now)
      [] field = "cvv" -> cvv(form.cvv)
      [] OTHER -> Valid

\* validateAllFields that leaves out the last field
validateAllFields_SkipsLast(form, now) ==
    \A k \in 1..(Len(fieldsToValidate) - 1) :
        validateField(form, fieldsToValidate[k], now).isValid

\* validateAllFields: every field is visited, isValid ends false if one failed
validateAllFields(form, now) ==
    \A k \in DOMAIN fieldsToValidate : validateField(form, fieldsToValidate[k], now).isValid

\* handleFieldChange: setFormData((prev) => ({ ...prev, [field]: sanitized }))
handleFieldChange(form, field, value) == [form EXCEPT ![field] = sanitizeInput(value)]

\* handlePlaceOrder up to its await: the alert it shows, or pay
handlePlaceOrder(items, form, now) ==
    IF Len(items) = 0
    THEN [pay |-> FALSE, title |-> "Error", message |-> "Your cart is empty"]
    ELSE IF ~validateAllFields(form, now)
    THEN [pay |-> FALSE, title |-> "Validation Error",
          message |-> "Please fill in all required fields correctly"]
    ELSE [pay |-> TRUE, title |-> "none", message |-> "none"]

\* what the user types into a field
TypedTexts(field) ==
    CASE field = "fullName" -> { << " ", "A", "l", " " >> }
      [] field = "email" -> { << "a", "@", "b", ".", "c" >>, << "a", "@", "b" >> }
      [] field = "phone" ->
            { << "(", "0", "1", "2", ")", " ", "3", "4", "5", "-", "6", "7", "8", "9" >> }
      [] field = "address" -> { << "<", "1", " ", "S", "t", ">" >> }
      [] field = "city" -> { << "X" >> }
      [] field = "state" -> { << "X" >> }
      [] field = "zipCode" -> { << "1", "2", "3", "4", "5", "-", "6", "7", "8", "9" >> }
      [] field = "cardNumber" ->
            { Grouped(<< "4", "1", "1", "1", "1", "1", "1", "1", "1", "1", "1", "1", "1",
                         "1", "1", "1" >>, " "),
              Grouped(<< "4", "1", "1", "1", "1", "1", "1", "1", "1", "1", "1", "1", "1",
                         "1", "1", "2" >>, " ") }
      [] field = "expiryDate" -> { << "1", "2", "/", "3", "0" >>, << "1", "3", "/", "3", "0" >> }
      [] field = "cvv" -> { << "1", "2", "3" >> }

\* what new Date() gives during a visit of the checkout: year % 100 and month
Nows == { [year |-> 26, month |-> 11], [year |-> 31, month |-> 1] }

\* CheckoutScreen as it mounts; now is the date of the visit
checkoutMounted(now) == [mounted |-> TRUE, isProcessing |-> FALSE, pc |-> "idle", now |-> now]

\* useCustomAlert
AlertConfig(title, message, buttons) ==
    [title |-> title, message |-> message, buttons |-> buttons]

\* useCustomAlert before any call: useState(null), useState(false)
alertHidden == [alertConfig |-> << >>, isVisible |-> FALSE, timers |-> 0, shown |-> << >>]

\* showAlert; shown is history: the arguments of the most recent call
showAlert(a, title, message, buttons) ==
    [a EXCEPT !.alertConfig = << AlertConfig(title, message, buttons) >>,
              !.isVisible = TRUE,
              !.shown = << AlertConfig(title, message, buttons) >>]

\* hideAlert: setIsVisible(false) and one more 300 ms timer
hideAlert(a) == [a EXCEPT !.isVisible = FALSE, !.timers = @ + 1]

\* the callback of a timer of hideAlert: setAlertConfig(null)
clearAlertConfig(a) == [a EXCEPT !.alertConfig = << >>, !.timers = @ - 1]

\* profile.tsx: the buttons of the alerts it shows, by the name of the list
AlertButtons(buttons) ==
    CASE buttons = "clearCart" -> {"Cancel", "Clear"}
      [] buttons = "logout" -> {"Cancel", "Logout"}
      [] OTHER -> {"OK"}

\* the onPress of a button of the profile screen's alerts, on the alert state
buttonOnPress(a, button) ==
    CASE button = "Clear" -> showAlert(a, "Success", "Cart cleared successfully", "undefined")
      [] button = "Logout" -> showAlert(a, "Success", "You have been logged out", "undefined")
      [] OTHER -> a

\* CustomAlert handleButtonPress: button.onPress(), then onDismiss()
handleButtonPress(a, button) == hideAlert(buttonOnPress(a, button))

\* a call of retry that has not started; failures is history: the errors fn has
\* thrown, oldest first
retryIdle ==
    [pc |-> "idle", maxRetries |-> 0, delayMs |-> 0, attempt |-> 0, calls |-> 0,
     inFlight |-> 0, waited |-> 0, lastError |-> "undefined", failures |-> << >>,
     result |-> "undefined",
     thrown |-> [type |-> "none", originalError |-> "undefined"]]

\* return await fn(): fn is invoked
retryInvoke(r) == [r EXCEPT !.pc = "awaitFn", !.calls = @ + 1, !.inFlight = @ + 1]

\* throw createError(ErrorType.UNKNOWN, `Failed after ...`, lastError!)
retryThrow(r) ==
    [r EXCEPT !.pc = "thrown",
              !.thrown = [type |-> "UNKNOWN_ERROR", originalError |-> r.lastError]]

\* a loop head that lets one more attempt through
retryLoop_OneMore(r) == IF r.attempt <= r.maxRetries + 1 THEN retryInvoke(r) ELSE retryThrow(r)

\* the head of the loop: attempt <= maxRetries
retryLoop(r) == IF r.attempt <= r.maxRetries THEN retryInvoke(r) ELSE retryThrow(r)

\* the catch block, and what follows it when no delay is awaited
retryCatch(r, error) ==
    LET caught == [r EXCEPT !.lastError = error, !.failures = Append(@, error),
                            !.inFlight = @ - 1]
    IN  IF caught.attempt < caught.maxRetries
        THEN [caught EXCEPT !.pc = "delay"]
        ELSE retryLoop([caught EXCEPT !.attempt = @ + 1])

\* the timer of delayMs * attempt has fired: attempt++ and the loop head
retryAfterDelay(r) ==
    retryLoop([r EXCEPT !.attempt = @ + 1, !.waited = @ + r.delayMs * r.attempt])

\* what fn resolves with and what it throws
FnValues == {"a", "b"}

FnErrors == {"E1", "E2"}

DelaysMs == {0, 1000}

\* ThemeProvider after its first render: useState('auto'), the load started
\* (savedMode is what its getItem, issued before any save, reads), no save in
\* flight; chosen is history: the mode the user chose last in this session
\* ("none" before any choice)
themeMounted(stored, systemColorScheme) ==
    [mode |-> "auto", stored |-> stored, savedMode |-> stored, loadPc |-> "pending",
     pendingSaves |-> << >>, systemColorScheme |-> systemColorScheme, chosen |-> "none"]

\* isDark = mode === 'dark' || (mode === 'auto' && systemColorScheme === 'dark')
isDark(t) == t.mode = "dark" \/ (t.mode = "auto" /\ t.systemColorScheme = "dark")

\* setThemeMode: setMode(newMode); saveThemePreference(newMode)
setThemeMode(t, newMode) ==
    [t EXCEPT !.mode = newMode, !.pendingSaves = Append(@, newMode), !.chosen = newMode]

\* toggleTheme
toggleTheme(t) == setThemeMode(t, IF isDark(t) THEN "light" ELSE "dark")

\* loadThemePreference from the settling of AsyncStorage.getItem on
loadThemePreference(t, readFails) ==
    IF ~readFails /\ t.savedMode \in {"light", "dark", "auto"}
    THEN [t EXCEPT !.mode = t.savedMode, !.loadPc = "done"]
    ELSE [t EXCEPT !.loadPc = "done"]

ThemeModes == {"light", "dark", "auto"}

-----------------------------------------------------------------------------
(* Steps *)

\* a CartProvider just mounted over a key that holds nothing or an unreadable text
InitCart ==
    /\ state = initialState
    /\ storageCart \in {StoredNull, StoredCorrupt}
    /\ pendingWrites = << >>
    /\ loadPc = "pending"
    /\ lastOp = Op("mount", "", 0)
    /\ prev = initialState
    /\ logged = "none"

\* nothing has been handed to validation.creditCard
InitCard ==
    /\ cardNumber = << >>
    /\ cardResult = NotValidated

\* the checkout screen is not open
InitCheckout ==
    /\ formData = initialFormData
    /\ checkout = [checkoutMounted([year |-> 26, month |-> 11]) EXCEPT !.mounted = FALSE]
    /\ router = << >>

\* useCustomAlert: useState(null), useState(false), no timer started
InitAlert ==
    alert = alertHidden

\* retry has not been called
InitRetry == retryRun = retryIdle

\* ThemeProvider just mounted, nothing stored under the theme key
InitTheme == theme = themeMounted("null", "light")

Init == InitCart /\ InitCard /\ InitCheckout /\ InitAlert /\ InitRetry /\ InitTheme

\* room, among at most cap writes in flight, for the write the save effect issues
\* when the store is not loading
RoomToSave(st, cap) == st.isLoading \/ Len(pendingWrites) < cap

AddItem(product, cap) ==
    /\ getItemQuantity(state, product.id) < MaxQty
    /\ RoomToSave(state, cap)
    /\ state' = addItem(state, product)
    /\ pendingWrites' = IF product.inStock THEN saveEffect(state', pendingWrites)
                        ELSE pendingWrites
    /\ logged' = IF product.inStock THEN "none" ELSE "VALIDATION_ERROR"
    /\ lastOp' = Op("addItem", product.id, 0)
    /\ prev' = state
    /\ UNCHANGED <<storageCart, loadPc>>
    /\ UNCHANGED screenVars

RemoveItem(productId, cap) ==
    /\ RoomToSave(state, cap)
    /\ state' = removeItem(state, productId)
    /\ pendingWrites' = saveEffect(state', pendingWrites)
    /\ logged' = "none"
    /\ lastOp' = Op("removeItem", productId, 0)
    /\ prev' = state
    /\ UNCHANGED <<storageCart, loadPc>>
    /\ UNCHANGED screenVars

UpdateQuantity(productId, quantity, cap) ==
    /\ RoomToSave(state, cap)
    /\ state' = updateQuantity(state, productId, quantity)
    /\ pendingWrites' = IF quantity < 0 THEN pendingWrites
                        ELSE saveEffect(state', pendingWrites)
    /\ logged' = IF quantity < 0 THEN "VALIDATION_ERROR" ELSE "none"
    /\ lastOp' = Op("updateQuantity", productId, quantity)
    /\ prev' = state
    /\ UNCHANGED <<storageCart, loadPc>>
    /\ UNCHANGED screenVars

ClearCart(cap) ==
    /\ RoomToSave(state, cap)
    /\ state' = clearCart(state)
    /\ pendingWrites' = saveEffect(state', pendingWrites)
    /\ logged' = "none"
    /\ lastOp' = Op("clearCart", "", 0)
    /\ prev' = state
    /\ UNCHANGED <<storageCart, loadPc>>
    /\ UNCHANGED screenVars

\* a consumer reads getItemQuantity: no dispatch, so no render and no save effect
GetItemQuantity(productId) ==
    /\ lastOp' = Op("getItemQuantity", productId, getItemQuantity(state, productId))
    /\ prev' = state
    /\ logged' = "none"
    /\ UNCHANGED <<state, storageCart, pendingWrites, loadPc>>
    /\ UNCHANGED screenVars

\* a consumer reads isInCart (recorded as 1 for true and 0 for false)
IsInCart(productId) ==
    /\ lastOp' = Op("isInCart", productId, IF isInCart(state, productId) THEN 1 ELSE 0)
    /\ prev' = state
    /\ logged' = "none"
    /\ UNCHANGED <<state, storageCart, pendingWrites, loadPc>>
    /\ UNCHANGED screenVars

\* the mount effect's loadCart, from the settling of AsyncStorage.getItem on
LoadCart(readFails) ==
    /\ loadPc = "pending"
    /\ LET savedCart == getItem(storageCart, readFails)
       IN  state' = IF ~savedCart.isNull
                    THEN cartReducer(state, [type |-> "LOAD_CART", payload |-> savedCart.value])
                    ELSE cartReducer(state, [type |-> "SET_LOADING", payload |-> FALSE])
    /\ pendingWrites' = saveEffect(state', pendingWrites)
    /\ loadPc' = "done"
    /\ logged' = IF getItemLogs(storageCart, readFails) THEN "UNKNOWN_ERROR" ELSE "none"
    /\ lastOp' = Op("loadCart", "", 0)
    /\ prev' = state
    /\ UNCHANGED storageCart
    /\ UNCHANGED screenVars

RemoveAt(s, i) == SubSeq(s, 1, i - 1) \o SubSeq(s, i + 1, Len(s))

\* a write of an empty list that removes the key instead of storing "[]"
SetItemResolves_RemovesEmpty(i) ==
    /\ i \in DOMAIN pendingWrites
    /\ storageCart' = IF pendingWrites[i] = << >> THEN StoredNull
                      ELSE StoredJson(pendingWrites[i])
    /\ pendingWrites' = RemoveAt(pendingWrites, i)
    /\ logged' = "none"
    /\ lastOp' = Op("setItemResolves", "", 0)
    /\ prev' = state
    /\ UNCHANGED <<state, loadPc>>
    /\ UNCHANGED screenVars

\* an AsyncStorage.setItem in flight resolves: the key now holds its text
SetItemResolves(i) ==
    /\ i \in DOMAIN pendingWrites
    /\ storageCart' = StoredJson(pendingWrites[i])
    /\ pendingWrites' = RemoveAt(pendingWrites, i)
    /\ logged' = "none"
    /\ lastOp' = Op("setItemResolves", "", 0)
    /\ prev' = state
    /\ UNCHANGED <<state, loadPc>>
    /\ UNCHANGED screenVars

\* a rejected AsyncStorage.setItem whose text is written again
SetItemRejects_Retries(i) ==
    /\ i \in DOMAIN pendingWrites
    /\ pendingWrites' = Append(RemoveAt(pendingWrites, i), pendingWrites[i])
    /\ logged' = "UNKNOWN_ERROR"
    /\ lastOp' = Op("setItemRejects", "", 0)
    /\ prev' = state
    /\ UNCHANGED <<state, storageCart, loadPc>>
    /\ UNCHANGED screenVars

\* an AsyncStorage.setItem in flight rejects: storage.setItem logs and returns false
SetItemRejects(i) ==
    /\ i \in DOMAIN pendingWrites
    /\ pendingWrites' = RemoveAt(pendingWrites, i)
    /\ logged' = "UNKNOWN_ERROR"
    /\ lastOp' = Op("setItemRejects", "", 0)
    /\ prev' = state
    /\ UNCHANGED <<state, storageCart, loadPc>>
    /\ UNCHANGED screenVars

\* the session ends and a new CartProvider mounts over the same device storage;
\* writes still in flight are lost with the old session
Remount ==
    /\ loadPc = "done"
    /\ state' = initialState
    /\ pendingWrites' = << >>
    /\ loadPc' = "pending"
    /\ logged' = "none"
    /\ lastOp' = Op("mount", "", 0)
    /\ prev' = initialState
    /\ UNCHANGED storageCart
    /\ UNCHANGED screenVars

Quantities == (0 - 1)..MaxQty

\* one session after another over the same device storage, driven with Products
Next ==
    \/ \E p \in Products : AddItem(p, MaxPending)
    \/ \E id \in ProductIds(Products) : RemoveItem(id, MaxPending)
    \/ \E id \in ProductIds(Products) : \E q \in Quantities :
            UpdateQuantity(id, q, MaxPending)
    \/ ClearCart(MaxPending)
    \/ \E id \in ProductIds(Products) : GetItemQuantity(id)
    \/ \E id \in ProductIds(Products) : IsInCart(id)
    \/ \E f \in BOOLEAN : LoadCart(f)
    \/ \E i \in 1..MaxPending : SetItemResolves(i)
    \/ \E i \in 1..MaxPending : SetItemRejects(i)
    \/ Remount

Spec == Init /\ [][Next]_vars

\* one session after another, driven with one product, in which the read of
\* the mount effect settles at some time: the promise of AsyncStorage.getItem
\* resolves or rejects
NextHydration ==
    \/ \E p \in ProductsOne : AddItem(p, MaxPending)
    \/ \E id \in ProductIds(ProductsOne) : RemoveItem(id, MaxPending)
    \/ \E id \in ProductIds(ProductsOne) : \E q \in Quantities :
            UpdateQuantity(id, q, MaxPending)
    \/ ClearCart(MaxPending)
    \/ \E f \in BOOLEAN : LoadCart(f)
    \/ \E i \in 1..MaxPending : SetItemResolves(i)
    \/ \E i \in 1..MaxPending : SetItemRejects(i)
    \/ Remount

SpecHydration ==
    Init /\ [][NextHydration]_vars /\ WF_vars(\E f \in BOOLEAN : LoadCart(f))

\* one session, driven with one product, in which every write succeeds and one
\* more write than in the other runs may be in flight; the writes in flight
\* settle in any order
NextWrites ==
    \/ \E p \in ProductsOne : AddItem(p, MaxPending + 1)
    \/ \E id \in ProductIds(ProductsOne) : RemoveItem(id, MaxPending + 1)
    \/ \E id \in ProductIds(ProductsOne) : \E q \in Quantities :
            UpdateQuantity(id, q, MaxPending + 1)
    \/ ClearCart(MaxPending + 1)
    \/ \E f \in BOOLEAN : LoadCart(f)
    \/ \E i \in 1..(MaxPending + 1) : SetItemResolves(i)

SpecWrites == Init /\ [][NextWrites]_vars

\* every write issued has settled
Settled == pendingWrites = << >>

\* one session, driven with ProductsWide, in which every write succeeds and has
\* settled before the next cart action is invoked
NextCart ==
    \/ \E p \in ProductsWide : Settled /\ AddItem(p, MaxPending)
    \/ \E id \in ProductIds(ProductsWide) : Settled /\ RemoveItem(id, MaxPending)
    \/ \E id \in ProductIds(ProductsWide) : \E q \in Quantities :
            Settled /\ UpdateQuantity(id, q, MaxPending)
    \/ Settled /\ ClearCart(MaxPending)
    \/ \E f \in BOOLEAN : LoadCart(f)
    \/ \E i \in 1..MaxPending : SetItemResolves(i)

SpecCart == Init /\ [][NextCart]_vars

\* validation.creditCard is applied to the text
ValidateCard ==
    /\ cardResult = NotValidated
    /\ cardResult' = creditCard(cardNumber)
    /\ lastOp' = Op("creditCard", "", Len(digitsOnly(cardNumber)))
    /\ prev' = state
    /\ logged' = "none"
    /\ UNCHANGED <<cartVars, cardNumber, formData, checkout, router, alert, retryRun, theme>>

\* validation.creditCard applied once to each of CardNumbers
InitCardNumbers ==
    /\ InitCart /\ InitCheckout /\ InitAlert /\ InitRetry /\ InitTheme
    /\ cardNumber \in CardNumbers
    /\ cardResult = NotValidated

SpecCard == InitCardNumbers /\ [][ValidateCard]_vars

\* the cart screen's checkout button: router.push('/checkout') mounts the screen
OpenCheckout(now) ==
    /\ ~checkout.mounted
    /\ router = << >>
    /\ ~state.isLoading
    /\ state.items # << >>
    /\ Settled
    /\ checkout' = checkoutMounted(now)
    /\ formData' = initialFormData
    /\ lastOp' = Op("openCheckout", "", 0)
    /\ prev' = state
    /\ logged' = "none"
    /\ UNCHANGED <<cartVars, cardNumber, cardResult, router, alert, retryRun, theme>>

\* the form is on screen: the screen is mounted, its last render had lines, and
\* no alert covers it
FormOnScreen ==
    /\ checkout.mounted
    /\ checkout.pc \in {"idle", "paying"}
    /\ state.items # << >>
    /\ ~alert.isVisible
    /\ alert.timers = 0

\* the user edits a field
HandleFieldChange(field, value) ==
    /\ FormOnScreen
    /\ formData' = handleFieldChange(formData, field, value)
    /\ lastOp' = Op("handleFieldChange", "", 0)
    /\ prev' = state
    /\ logged' = "none"
    /\ UNCHANGED <<cartVars, cardNumber, cardResult, checkout, router, alert, retryRun, theme>>

\* the Place Order button is pressed (it is disabled while isProcessing):
\* handlePlaceOrder up to its await
PressPlaceOrder ==
    /\ FormOnScreen
    /\ ~checkout.isProcessing
    /\ LET order == handlePlaceOrder(state.items, formData, checkout.now)
       IN  /\ alert' = IF order.pay THEN alert
                       ELSE showAlert(alert, order.title, order.message, "undefined")
           /\ checkout' = IF order.pay
                          THEN [checkout EXCEPT !.isProcessing = TRUE, !.pc = "paying"]
                          ELSE checkout
    /\ lastOp' = Op("handlePlaceOrder", "", 0)
    /\ prev' = state
    /\ logged' = "none"
    /\ UNCHANGED <<cartVars, cardNumber, cardResult, formData, router, retryRun, theme>>

\* the 2000 ms timer of handlePlaceOrder fires: clearCart(),
\* router.replace('/order-success'), setIsProcessing(false). Where the dispatch
\* of clearCart is flushed at once (sync), the screen renders with an empty
\* cart, and so redirects, before the handler goes on.
PaymentResolves(sync) ==
    /\ checkout.pc = "paying"
    /\ RoomToSave(state, MaxPending)
    /\ state' = clearCart(state)
    /\ pendingWrites' = saveEffect(state', pendingWrites)
    /\ router' = router \o (IF sync /\ checkout.mounted THEN << "/cart" >> ELSE << >>)
                        \o << "/order-success" >>
    /\ checkout' = [checkout EXCEPT !.isProcessing = FALSE, !.pc = "done"]
    /\ lastOp' = Op("paymentResolves", "", 0)
    /\ prev' = state
    /\ logged' = "none"
    /\ UNCHANGED <<storageCart, loadPc, cardNumber, cardResult, formData, alert, retryRun, theme>>

\* the screen, still mounted after the order, renders with the emptied cart:
\* if (items.length === 0) { router.replace('/cart'); return null; }
CheckoutRerender ==
    /\ checkout.mounted
    /\ checkout.pc = "done"
    /\ Len(state.items) = 0
    /\ router' = Append(router, "/cart")
    /\ checkout' = [checkout EXCEPT !.pc = "redirected"]
    /\ lastOp' = Op("checkoutRender", "", 0)
    /\ prev' = state
    /\ logged' = "none"
    /\ UNCHANGED <<cartVars, cardNumber, cardResult, formData, alert, retryRun, theme>>

\* the navigation asked for is carried out: the checkout screen is replaced
CheckoutUnmounts ==
    /\ checkout.mounted
    /\ router # << >>
    /\ checkout' = [checkout EXCEPT !.mounted = FALSE]
    /\ lastOp' = Op("checkoutUnmounts", "", 0)
    /\ prev' = state
    /\ logged' = "none"
    /\ UNCHANGED <<cartVars, cardNumber, cardResult, formData, router, alert, retryRun, theme>>

\* the alert is dismissed (its OK button without onPress, the overlay, the
\* back key): onDismiss is hideAlert
DismissAlert ==
    /\ alert.isVisible
    /\ alert.timers < MaxTimers
    /\ alert' = hideAlert(alert)
    /\ lastOp' = Op("hideAlert", "", 0)
    /\ prev' = state
    /\ logged' = "none"
    /\ UNCHANGED <<cartVars, cardNumber, cardResult, formData, checkout, router, retryRun, theme>>

\* a 300 ms timer of hideAlert fires
AlertTimerFires ==
    /\ alert.timers > 0
    /\ alert' = clearAlertConfig(alert)
    /\ lastOp' = Op("alertTimer", "", 0)
    /\ prev' = state
    /\ logged' = "none"
    /\ UNCHANGED <<cartVars, cardNumber, cardResult, formData, checkout, router, retryRun, theme>>

\* one visit of the checkout screen, from a cart filled with one product
NextCheckout ==
    \/ \E p \in ProductsOne : ~checkout.mounted /\ AddItem(p, MaxPending)
    \/ \E f \in BOOLEAN : LoadCart(f)
    \/ \E i \in 1..MaxPending : SetItemResolves(i)
    \/ \E now \in Nows : OpenCheckout(now)
    \/ \E k \in DOMAIN fieldsToValidate : \E value \in TypedTexts(fieldsToValidate[k]) :
            HandleFieldChange(fieldsToValidate[k], value)
    \/ PressPlaceOrder
    \/ \E sync \in BOOLEAN : PaymentResolves(sync)
    \/ CheckoutRerender
    \/ CheckoutUnmounts
    \/ DismissAlert
    \/ AlertTimerFires

SpecCheckout == Init /\ [][NextCheckout]_vars

\* retry(fn, maxRetries, delayMs) is called: attempt = 1 and the loop head
CallRetry(maxRetries, delayMs) ==
    /\ retryRun.pc = "idle"
    /\ retryRun' = retryLoop([retryRun EXCEPT !.maxRetries = maxRetries,
                                              !.delayMs = delayMs, !.attempt = 1])
    /\ lastOp' = Op("retry", "", maxRetries)
    /\ prev' = state
    /\ logged' = "none"
    /\ UNCHANGED <<cartVars, cardNumber, cardResult, formData, checkout, router, alert, theme>>

\* the invocation of fn in flight resolves: retry returns its value
FnResolves(value) ==
    /\ retryRun.pc = "awaitFn"
    /\ retryRun' = [retryRun EXCEPT !.pc = "returned", !.result = value, !.inFlight = @ - 1]
    /\ lastOp' = Op("fnResolves", "", 0)
    /\ prev' = state
    /\ logged' = "none"
    /\ UNCHANGED <<cartVars, cardNumber, cardResult, formData, checkout, router, alert, theme>>

\* the invocation of fn in flight rejects
FnRejects(error) ==
    /\ retryRun.pc = "awaitFn"
    /\ retryRun' = retryCatch(retryRun, error)
    /\ lastOp' = Op("fnRejects", "", 0)
    /\ prev' = state
    /\ logged' = "none"
    /\ UNCHANGED <<cartVars, cardNumber, cardResult, formData, checkout, router, alert, theme>>

\* the timer between two attempts fires
RetryDelayElapses ==
    /\ retryRun.pc = "delay"
    /\ retryRun' = retryAfterDelay(retryRun)
    /\ lastOp' = Op("retryDelay", "", 0)
    /\ prev' = state
    /\ logged' = "none"
    /\ UNCHANGED <<cartVars, cardNumber, cardResult, formData, checkout, router, alert, theme>>

NextRetry ==
    \/ \E maxRetries \in 0..MaxRetries : \E delayMs \in DelaysMs :
            CallRetry(maxRetries, delayMs)
    \/ \E value \in FnValues : FnResolves(value)
    \/ \E error \in FnErrors : FnRejects(error)
    \/ RetryDelayElapses

\* one call of retry, in which every invocation of fn terminates and every
\* timer fires
SpecRetry ==
    /\ Init
    /\ [][NextRetry]_vars
    /\ WF_vars(\E value \in FnValues : FnResolves(value))
    /\ WF_vars(\E error \in FnErrors : FnRejects(error))
    /\ WF_vars(RetryDelayElapses)

\* profile.tsx handleClearCart: the Clear Cart entry of the menu is pressed
HandleClearCart ==
    /\ ~alert.isVisible
    /\ alert' = showAlert(alert, "Clear Cart", "Are you sure you want to clear your cart?",
                          "clearCart")
    /\ lastOp' = Op("handleClearCart", "", 0)
    /\ prev' = state
    /\ logged' = "none"
    /\ UNCHANGED <<cartVars, cardNumber, cardResult, formData, checkout, router, retryRun, theme>>

\* profile.tsx handleLogout: the Logout entry of the menu is pressed
HandleLogout ==
    /\ ~alert.isVisible
    /\ alert' = showAlert(alert, "Logout", "Are you sure you want to logout?", "logout")
    /\ lastOp' = Op("handleLogout", "", 0)
    /\ prev' = state
    /\ logged' = "none"
    /\ UNCHANGED <<cartVars, cardNumber, cardResult, formData, checkout, router, retryRun, theme>>

\* a button of the alert on screen is pressed: handleButtonPress, with the
\* clearCart() that the Clear button's onPress calls first
PressAlertButton(button) ==
    /\ alert.isVisible
    /\ alert.alertConfig # << >>
    /\ button \in AlertButtons(alert.alertConfig[1].buttons)
    /\ alert.timers < MaxTimers
    /\ button = "Clear" => RoomToSave(state, MaxPending)
    /\ state' = IF button = "Clear" THEN clearCart(state) ELSE state
    /\ pendingWrites' = IF button = "Clear" THEN saveEffect(state', pendingWrites)
                        ELSE pendingWrites
    /\ alert' = handleButtonPress(alert, button)
    /\ lastOp' = Op("handleButtonPress", button, 0)
    /\ prev' = state
    /\ logged' = "none"
    /\ UNCHANGED <<storageCart, loadPc, cardNumber, cardResult, formData, checkout, router,
                   retryRun, theme>>

\* the profile screen over a cart filled with one product
NextProfile ==
    \/ \E p \in ProductsOne : AddItem(p, MaxPending)
    \/ \E f \in BOOLEAN : LoadCart(f)
    \/ \E i \in 1..MaxPending : SetItemResolves(i)
    \/ HandleClearCart
    \/ HandleLogout
    \/ \E button \in {"OK", "Cancel", "Clear", "Logout"} : PressAlertButton(button)
    \/ DismissAlert
    \/ AlertTimerFires

SpecProfile == Init /\ [][NextProfile]_vars

\* the user picks a theme (profile.tsx handleThemeChange buttons)
SetThemeMode(newMode) ==
    /\ Len(theme.pendingSaves) < MaxPending
    /\ theme' = setThemeMode(theme, newMode)
    /\ lastOp' = Op("setThemeMode", newMode, 0)
    /\ prev' = state
    /\ logged' = "none"
    /\ UNCHANGED <<cartVars, cardNumber, cardResult, formData, checkout, router, alert, retryRun>>

ToggleTheme ==
    /\ Len(theme.pendingSaves) < MaxPending
    /\ theme' = toggleTheme(theme)
    /\ lastOp' = Op("toggleTheme", "", 0)
    /\ prev' = state
    /\ logged' = "none"
    /\ UNCHANGED <<cartVars, cardNumber, cardResult, formData, checkout, router, alert, retryRun>>

\* the AsyncStorage.getItem of the mount effect settles
ThemeLoadResolves(readFails) ==
    /\ theme.loadPc = "pending"
    /\ theme' = loadThemePreference(theme, readFails)
    /\ lastOp' = Op("loadThemePreference", "", 0)
    /\ prev' = state
    /\ logged' = IF readFails THEN "Failed to load theme preference" ELSE "none"
    /\ UNCHANGED <<cartVars, cardNumber, cardResult, formData, checkout, router, alert, retryRun>>

\* an AsyncStorage.setItem of saveThemePreference settles
ThemeSaveSettles(i, writeFails) ==
    /\ i \in DOMAIN theme.pendingSaves
    /\ theme' = [theme EXCEPT !.stored = IF writeFails THEN @ ELSE theme.pendingSaves[i],
                              !.pendingSaves = RemoveAt(@, i)]
    /\ lastOp' = Op("saveThemePreference", "", 0)
    /\ prev' = state
    /\ logged' = IF writeFails THEN "Failed to save theme preference" ELSE "none"
    /\ UNCHANGED <<cartVars, cardNumber, cardResult, formData, checkout, router, alert, retryRun>>

\* the device switches its colour scheme
SystemSchemeChanges(scheme) ==
    /\ theme.systemColorScheme # scheme
    /\ theme' = [theme EXCEPT !.systemColorScheme = scheme]
    /\ lastOp' = Op("useColorScheme", scheme, 0)
    /\ prev' = state
    /\ logged' = "none"
    /\ UNCHANGED <<cartVars, cardNumber, cardResult, formData, checkout, router, alert, retryRun>>

\* the session ends and a new ThemeProvider mounts over the same storage
ThemeRemount ==
    /\ theme.loadPc = "done"
    /\ theme' = themeMounted(theme.stored, theme.systemColorScheme)
    /\ lastOp' = Op("mountTheme", "", 0)
    /\ prev' = state
    /\ logged' = "none"
    /\ UNCHANGED <<cartVars, cardNumber, cardResult, formData, checkout, router, alert, retryRun>>

NextTheme ==
    \/ \E newMode \in ThemeModes : SetThemeMode(newMode)
    \/ ToggleTheme
    \/ \E readFails \in BOOLEAN : ThemeLoadResolves(readFails)
    \/ \E i \in 1..MaxPending : \E writeFails \in BOOLEAN : ThemeSaveSettles(i, writeFails)
    \/ \E scheme \in {"light", "dark"} : SystemSchemeChanges(scheme)
    \/ ThemeRemount

\* one session of the ThemeProvider after another over the same storage
SpecTheme == Init /\ [][NextTheme]_vars

-----------------------------------------------------------------------------
(* Properties *)

ProductById(id) == CHOOSE p \in ProductsWide : p.id = id

RECURSIVE LinesQuantity(_)
LinesQuantity(lines) ==
    IF lines = << >> THEN 0 ELSE Head(lines).quantity + LinesQuantity(Tail(lines))

RECURSIVE LinesPrice(_)
LinesPrice(lines) ==
    IF lines = << >> THEN 0
    ELSE Head(lines).product.price * Head(lines).quantity + LinesPrice(Tail(lines))

LinesOf(lines, id) == { i \in DOMAIN lines : lines[i].product.id = id }

\* C1: in every reachable state totalItems is the sum of the quantities of all
\* lines and totalPrice is the sum over all lines of price * quantity.
C1_TotalsMatchLines ==
    /\ state.totalItems = LinesQuantity(state.items)
    /\ state.totalPrice = LinesPrice(state.items)

\* a hydrated cart of two lines, one of quantity 2, with its totals
C1_Witness ==
    /\ lastOp.op = "loadCart"
    /\ Len(state.items) = 2
    /\ state.totalItems = 3
    /\ state.totalPrice = 12999 + 2 * 15999

\* C2: starting from a snapshot that is absent, unreadable or written by the
\* store, no two lines of the cart carry the same product identifier.
C2_UniqueProductIds ==
    \A i, j \in DOMAIN state.items :
        state.items[i].product.id = state.items[j].product.id => i = j

\* addItem of a product that already has a line, in a cart of two lines
C2_Witness ==
    /\ lastOp.op = "addItem"
    /\ hasItem(prev.items, lastOp.id)
    /\ Len(prev.items) = 2
    /\ Len(state.items) = 2

\* C3: every line has quantity >= 1, and an accepted updateQuantity(id, 0)
\* leaves no line for id (negative quantities never reach the reducer).
C3_QuantityAtLeastOne ==
    /\ \A i \in DOMAIN state.items : state.items[i].quantity >= 1
    /\ (lastOp.op = "updateQuantity" /\ lastOp.q = 0)
            => ~hasItem(state.items, lastOp.id)

\* a line of quantity 1 taken to 0 while another line stays
C3_Witness ==
    /\ lastOp.op = "updateQuantity"
    /\ lastOp.q = 0
    /\ \E i \in DOMAIN prev.items :
            prev.items[i].product.id = lastOp.id /\ prev.items[i].quantity = 1
    /\ Len(state.items) = 1

\* C4: addItem of an out-of-stock product, in any state, leaves items,
\* totalItems, totalPrice and isLoading as they were, issues no write, and
\* reports a validation error to the log only.
C4_OutOfStockRejected ==
    /\ \A p \in Products : ~p.inStock => addItem(state, p) = state
    /\ (lastOp.op = "addItem" /\ ~ProductById(lastOp.id).inStock)
            => state = prev /\ logged = "VALIDATION_ERROR"

\* an out-of-stock product offered to a ready, non-empty cart
C4_Witness ==
    /\ lastOp.op = "addItem"
    /\ ~ProductById(lastOp.id).inStock
    /\ ~state.isLoading
    /\ Len(state.items) = 2
    /\ logged = "VALIDATION_ERROR"

\* lines with the line at position k taken out
WithoutLine(lines, k) == SubSeq(lines, 1, k - 1) \o SubSeq(lines, k + 1, Len(lines))

\* C5: addItem of an in-stock product appends the line (P, 1) after the old
\* lines when P has no line, and otherwise raises that line's quantity by one in
\* place; all other lines keep product, quantity and order; two addItem(P) from
\* a cart without P leave exactly one line for P, of quantity 2.
C5_AddItemAppendsOrIncrements ==
    /\ (lastOp.op = "addItem" /\ ProductById(lastOp.id).inStock) =>
            IF ~hasItem(prev.items, lastOp.id)
            THEN state.items = prev.items \o << CartItem(ProductById(lastOp.id), 1) >>
            ELSE /\ Len(state.items) = Len(prev.items)
                 /\ \A i \in DOMAIN prev.items :
                        IF prev.items[i].product.id = lastOp.id
                        THEN /\ state.items[i].product = prev.items[i].product
                             /\ state.items[i].quantity = prev.items[i].quantity + 1
                        ELSE state.items[i] = prev.items[i]
    /\ \A p \in ProductsWide :
            (p.inStock /\ ~hasItem(state.items, p.id)) =>
                LET twice == addItem(addItem(state, p), p).items
                IN  /\ Cardinality(LinesOf(twice, p.id)) = 1
                    /\ \A i \in LinesOf(twice, p.id) : twice[i].quantity = 2
                    /\ Len(twice) = Len(state.items) + 1

\* the middle line of three raised from 1 to 2
C5_Witness ==
    /\ lastOp.op = "addItem"
    /\ Len(prev.items) = 3
    /\ prev.items[2].product.id = lastOp.id
    /\ prev.items[2].quantity = 1
    /\ state.items[2].quantity = 2

\* C6: in every state and for every product id, updateQuantity(id, 0) and
\* removeItem(id) give the same items, totalItems, totalPrice and isLoading, and
\* the result has no line for id.
C6_UpdateToZeroIsRemove ==
    \A id \in ProductIds(Products) :
        /\ updateQuantity(state, id, 0) = removeItem(state, id)
        /\ ~hasItem(updateQuantity(state, id, 0).items, id)

\* updateQuantity(id, 0) has acted on a cart of two lines that had a line for id
C6_Witness ==
    /\ lastOp.op = "updateQuantity"
    /\ lastOp.q = 0
    /\ hasItem(prev.items, lastOp.id)
    /\ Len(prev.items) = 2
    /\ state = removeItem(prev, lastOp.id)

\* C7: updateQuantity with a negative quantity, for an id with or without a
\* line, leaves items, totalItems, totalPrice and isLoading as they were (the
\* line for id stays) and reports a validation error.
C7_NegativeQuantityRejected ==
    /\ \A id \in ProductIds(Products) : \A q \in {0 - 2, 0 - 1} :
            updateQuantity(state, id, q) = state
    /\ (lastOp.op = "updateQuantity" /\ lastOp.q < 0)
            => state = prev /\ logged = "VALIDATION_ERROR"

\* updateQuantity(id, -1) has acted on a cart that has a line for id
C7_Witness ==
    /\ lastOp.op = "updateQuantity"
    /\ lastOp.q = 0 - 1
    /\ hasItem(state.items, lastOp.id)
    /\ logged = "VALIDATION_ERROR"

\* C8: updateQuantity(id, q) with q > 0 on a cart with a line for id sets that
\* line's quantity to q whatever it was, in place, and leaves every other line's
\* product, quantity and position as they were.
C8_UpdateSetsQuantity ==
    (lastOp.op = "updateQuantity" /\ lastOp.q > 0 /\ hasItem(prev.items, lastOp.id)) =>
        /\ Len(state.items) = Len(prev.items)
        /\ Cardinality(LinesOf(state.items, lastOp.id)) = 1
        /\ \A i \in DOMAIN prev.items :
                IF prev.items[i].product.id = lastOp.id
                THEN /\ state.items[i].product = prev.items[i].product
                     /\ state.items[i].quantity = lastOp.q
                ELSE state.items[i] = prev.items[i]

\* the middle line of three set from 1 to 2
C8_Witness ==
    /\ lastOp.op = "updateQuantity"
    /\ lastOp.q = 2
    /\ Len(prev.items) = 3
    /\ prev.items[2].product.id = lastOp.id
    /\ prev.items[2].quantity = 1
    /\ state.items[2].quantity = 2

\* C9: updateQuantity(id, q) with q > 0 on a cart without a line for id changes
\* nothing, and a line for a product appears only by addItem or by the
\* hydration load.
C9_UpdateNeverCreatesLine ==
    /\ (lastOp.op = "updateQuantity" /\ lastOp.q > 0 /\ ~hasItem(prev.items, lastOp.id))
            => state = prev
    /\ \A id \in ProductIds(Products) :
            (hasItem(state.items, id) /\ ~hasItem(prev.items, id))
                => lastOp.op \in {"addItem", "loadCart"}

\* updateQuantity(id, 2) has acted on a non-empty cart without a line for id
C9_Witness ==
    /\ lastOp.op = "updateQuantity"
    /\ lastOp.q = 2
    /\ ProductById(lastOp.id).inStock
    /\ ~hasItem(prev.items, lastOp.id)
    /\ Len(prev.items) = 1

\* C10: removeItem(id) takes out the line for id when there is one and leaves
\* the other lines as they were, in order; without a line for id it changes
\* neither items nor the totals; it reports no error.
C10_RemoveItemRemovesOnlyThatLine ==
    lastOp.op = "removeItem" =>
        /\ logged = "none"
        /\ IF hasItem(prev.items, lastOp.id)
           THEN \E k \in DOMAIN prev.items :
                    /\ prev.items[k].product.id = lastOp.id
                    /\ state.items = WithoutLine(prev.items, k)
           ELSE state = prev

\* the middle line of three removed
C10_Witness ==
    /\ lastOp.op = "removeItem"
    /\ Len(prev.items) = 3
    /\ prev.items[2].product.id = lastOp.id
    /\ state.items = << prev.items[1], prev.items[3] >>

\* C11: clearCart, after any sequence of operations, leaves items empty and both
\* totals 0, and leaves isLoading as it was.
C11_ClearCartEmpties ==
    /\ clearCart(state) = [items |-> << >>, totalItems |-> 0, totalPrice |-> 0,
                           isLoading |-> state.isLoading]
    /\ lastOp.op = "clearCart" =>
            /\ state.items = << >>
            /\ state.totalItems = 0
            /\ state.totalPrice = 0
            /\ state.isLoading = prev.isLoading

\* clearCart has acted on a ready cart of two lines
C11_Witness ==
    /\ lastOp.op = "clearCart"
    /\ Len(prev.items) = 2
    /\ prev.totalItems = 3
    /\ ~prev.isLoading
    /\ state.items = << >>

\* what the two reads return in the current state, against its lines
C12_ReadsAgree ==
    \A id \in ProductIds(Products) :
        /\ getItemQuantity(state, id) =
                IF LinesOf(state.items, id) = {} THEN 0
                ELSE state.items[CHOOSE i \in LinesOf(state.items, id) : TRUE].quantity
        /\ isInCart(state, id) <=> LinesOf(state.items, id) # {}
        /\ isInCart(state, id) <=> getItemQuantity(state, id) >= 1

\* C12: getItemQuantity(id) is the quantity of the line for id, or 0 without
\* such a line; isInCart(id) is true exactly when a line for id exists, that is
\* when getItemQuantity(id) >= 1; neither read changes the cart state or issues
\* a write.
C12_ReadsMatchLines ==
    /\ []C12_ReadsAgree
    /\ [][lastOp'.op \in {"getItemQuantity", "isInCart"}
            => UNCHANGED <<state, storageCart, pendingWrites>>]_vars

\* getItemQuantity has returned 2 for the second line of a ready cart
C12_Witness ==
    /\ lastOp.op = "getItemQuantity"
    /\ lastOp.q = 2
    /\ ~state.isLoading
    /\ Len(state.items) = 2
    /\ state.items[2].product.id = lastOp.id
    /\ state.items[1].quantity = 1

\* a fresh store hydrated from the snapshot written for lines, nothing else
\* having acted on it
HydratedFrom(lines) ==
    LET savedCart == getItem(StoredJson(JSONStringify(lines)), FALSE)
    IN  IF ~savedCart.isNull
        THEN cartReducer(initialState, [type |-> "LOAD_CART", payload |-> savedCart.value])
        ELSE cartReducer(initialState, [type |-> "SET_LOADING", payload |-> FALSE])

\* C13: round trip. A fresh store hydrated from the snapshot written for the
\* lines L, with no other action in between, has items equal to L (products,
\* quantities, order), totals recomputed from L, and isLoading false.
C13_PersistHydrateRoundTrip ==
    /\ HydratedFrom(state.items) =
            [items |-> state.items,
             totalItems |-> LinesQuantity(state.items),
             totalPrice |-> LinesPrice(state.items),
             isLoading |-> FALSE]
    /\ (/\ lastOp.op = "loadCart"
        /\ prev = initialState
        /\ logged = "none"
        /\ storageCart.kind = "json")
            => /\ JSONStringify(state.items) = storageCart.text
               /\ state.totalItems = LinesQuantity(state.items)
               /\ state.totalPrice = LinesPrice(state.items)
               /\ ~state.isLoading

\* a fresh store has adopted a stored snapshot of two lines, the second of
\* quantity 2
C13_Witness ==
    /\ lastOp.op = "loadCart"
    /\ prev = initialState
    /\ logged = "none"
    /\ storageCart.kind = "json"
    /\ Len(storageCart.text) = 2
    /\ Len(state.items) = 2
    /\ state.items[2].quantity = 2
    /\ state.items[1].product.id = "2"

\* the step taken last was a cart action that was accepted
AcceptedMutation ==
    \/ lastOp.op = "addItem" /\ ProductById(lastOp.id).inStock
    \/ lastOp.op = "removeItem"
    \/ lastOp.op = "updateQuantity" /\ lastOp.q >= 0
    \/ lastOp.op = "clearCart"

\* C14: when hydration completes and the snapshot is absent or the read or the
\* parse failed, items are empty, both totals are 0 and isLoading is false,
\* whatever was invoked before hydration completed.
C14_FailedLoadStartsEmpty ==
    (lastOp.op = "loadCart" /\ (storageCart.kind # "json" \/ logged = "UNKNOWN_ERROR")) =>
        /\ state.items = << >>
        /\ state.totalItems = 0
        /\ state.totalPrice = 0
        /\ ~state.isLoading

CartSteps == {"addItem", "removeItem", "updateQuantity", "clearCart",
              "getItemQuantity", "isInCart", "setItemResolves", "setItemRejects"}

\* C15: a store starts with isLoading true; isLoading turns false exactly at
\* the completion of loadCart, which runs once per store; after that no cart
\* action and no storage completion makes it true again.
C15_LoadingEndsOnceAndForAll ==
    /\ lastOp.op = "mount" => state = initialState /\ state.isLoading
    /\ state.isLoading <=> loadPc = "pending"
    /\ lastOp.op = "loadCart" => prev.isLoading /\ ~state.isLoading
    /\ lastOp.op \in CartSteps => state.isLoading = prev.isLoading

\* a ready store has been cleared and stays ready
C15_Witness ==
    /\ lastOp.op = "clearCart"
    /\ ~prev.isLoading
    /\ Len(prev.items) = 1
    /\ ~state.isLoading
    /\ loadPc = "done"

\* C16: provided the storage read completes (with a value, with absence or with
\* a failure), a loading store becomes ready; neither a failed read nor an
\* unparsable snapshot leaves it loading.
C16_LoadingLeadsToReady == state.isLoading ~> ~state.isLoading

\* a store made ready by a read that failed or a text that did not parse
C16_Witness ==
    /\ lastOp.op = "loadCart"
    /\ logged = "UNKNOWN_ERROR"
    /\ prev.isLoading
    /\ ~state.isLoading

\* C17: every accepted mutating action (addItem of an in-stock product,
\* removeItem, updateQuantity with quantity >= 0, clearCart), in whichever state
\* it is invoked, issues a write of the resulting items under the cart key.
C17_MutationIssuesWrite ==
    AcceptedMutation =>
        /\ pendingWrites # << >>
        /\ pendingWrites[Len(pendingWrites)] = JSONStringify(state.items)

\* C18: a write that fails leaves items, totals and isLoading as they were and
\* leaves the stored value alone, is not issued again, and does not stand in
\* the way of a later action.
C18_FailedWriteLeavesState ==
    /\ [][lastOp'.op = "setItemRejects" =>
            /\ state' = state
            /\ storageCart' = storageCart
            /\ Len(pendingWrites') = Len(pendingWrites) - 1
            /\ logged' = "UNKNOWN_ERROR"]_vars
    /\ [](lastOp.op = "setItemRejects" =>
            /\ ENABLED ClearCart(MaxPending)
            /\ \A id \in ProductIds(Products) : ENABLED RemoveItem(id, MaxPending))

\* the write of a cart of two lines has failed; the cart is as it was and the
\* stored value is older
C18_Witness ==
    /\ lastOp.op = "setItemRejects"
    /\ state = prev
    /\ Len(state.items) = 2
    /\ pendingWrites = << >>
    /\ storageCart.kind = "json"
    /\ storageCart.text # JSONStringify(state.items)

\* C19: while the store is loading, no addItem, removeItem, updateQuantity or
\* clearCart changes items or the totals.
C19_NoMutationWhileLoading ==
    (prev.isLoading /\ lastOp.op \in {"addItem", "removeItem", "updateQuantity", "clearCart"}) =>
        /\ state.items = prev.items
        /\ state.totalItems = prev.totalItems
        /\ state.totalPrice = prev.totalPrice

\* C20: a loading store issues no write, and no write of the store lands in
\* storage while it is loading, so the snapshot loadCart adopts is the one the
\* key held when the store was created.
C20_NoWriteWhileLoading ==
    /\ state.isLoading => pendingWrites = << >>
    /\ lastOp.op \in {"setItemResolves", "setItemRejects"} => ~state.isLoading
    /\ (lastOp.op = "loadCart" /\ prev.isLoading /\ storageCart.kind = "json"
            /\ logged = "none")
            => state.items = JSONParse(storageCart.text)

\* a line added to a loading store over a stored snapshot: nothing is written
C20_Witness ==
    /\ state.isLoading
    /\ lastOp.op = "addItem"
    /\ Len(state.items) = 1
    /\ storageCart.kind = "json"
    /\ storageCart.text # << >>
    /\ pendingWrites = << >>

\* C21: last write wins. Once every write issued has completed successfully,
\* the value under the cart key is the snapshot of the in-memory lines: a write
\* issued earlier has not overwritten one issued later.
C21_LastWriteWins ==
    (~state.isLoading /\ pendingWrites = << >> /\ lastOp.op = "setItemResolves")
        => storageCart = StoredJson(JSONStringify(state.items))

\* C22: clearCart on a ready store issues a write of the empty list; the cart
\* key, once it holds a value, is never removed; a fresh store hydrated from
\* the stored empty list is ready with no lines and zero totals.
C22_ClearPersistsEmptyList ==
    /\ [](/\ (lastOp.op = "clearCart" /\ ~prev.isLoading) =>
                /\ pendingWrites # << >>
                /\ pendingWrites[Len(pendingWrites)] = JSONStringify(<< >>)
          /\ HydratedFrom(<< >>) =
                [items |-> << >>, totalItems |-> 0, totalPrice |-> 0, isLoading |-> FALSE]
          /\ (/\ lastOp.op = "loadCart"
              /\ prev = initialState
              /\ logged = "none"
              /\ storageCart = StoredJson(JSONStringify(<< >>)))
                => state = [items |-> << >>, totalItems |-> 0, totalPrice |-> 0,
                            isLoading |-> FALSE])
    /\ [][storageCart.kind = "json" => storageCart'.kind = "json"]_vars

\* clearCart has acted on a ready cart of two lines whose snapshot is stored:
\* the write in flight is the empty list
C22_Witness ==
    /\ lastOp.op = "clearCart"
    /\ ~prev.isLoading
    /\ Len(prev.items) = 2
    /\ storageCart = StoredJson(JSONStringify(prev.items))
    /\ pendingWrites = << JSONStringify(<< >>) >>

\* C24: a line leaves the cart only through removeItem of its product,
\* updateQuantity of its product to 0, or clearCart, also when the line was
\* added before hydration completed.
C24_LineLeavesOnlyByRemoval ==
    \A id \in ProductIds(Products) :
        (hasItem(prev.items, id) /\ ~hasItem(state.items, id)) =>
            \/ lastOp.op = "removeItem" /\ lastOp.id = id
            \/ lastOp.op = "updateQuantity" /\ lastOp.id = id /\ lastOp.q = 0
            \/ lastOp.op = "clearCart"

\* the digit that stands k-th from the right
DigitFromRight(digits, k) == parseInt(digits[Len(digits) - k + 1])

\* the Luhn total: every second digit counted from the right doubled, 9 taken
\* off a doubled value above 9
RECURSIVE LuhnTotal(_, _)
LuhnTotal(digits, k) ==
    IF k = 0 THEN 0
    ELSE LET d == DigitFromRight(digits, k)
             v == IF k % 2 = 1 THEN d ELSE IF 2 * d > 9 THEN 2 * d - 9 ELSE 2 * d
         IN  v + LuhnTotal(digits, k - 1)

\* the digits of a text, in order, all other characters removed
RECURSIVE DigitsOf(_)
DigitsOf(text) ==
    IF text = << >> THEN << >>
    ELSE IF Head(text) \in {"0", "1", "2", "3", "4", "5", "6", "7", "8", "9"}
         THEN << Head(text) >> \o DigitsOf(Tail(text))
         ELSE DigitsOf(Tail(text))

\* C23: creditCard(s) is valid exactly when the digits of s number 13 to 19 and
\* pass the Luhn checksum; otherwise it is invalid and carries an error message.
C23_CreditCardLuhn ==
    /\ LET digits == DigitsOf(cardNumber)
           ok == /\ Len(digits) >= 13
                 /\ Len(digits) <= 19
                 /\ LuhnTotal(digits, Len(digits)) % 10 = 0
           r == creditCard(cardNumber)
       IN  /\ r.isValid <=> ok
           /\ ~r.isValid => r.error \in {"Card number is required",
                                         "Invalid card number length",
                                         "Invalid card number"}
    /\ lastOp.op = "creditCard" => cardResult = creditCard(cardNumber)

\* a card number of 16 digits written in groups, found valid
C23_Witness ==
    /\ lastOp.op = "creditCard"
    /\ Len(cardNumber) = 19
    /\ Len(DigitsOf(cardNumber)) = 16
    /\ cardResult.isValid

\* the ten fields of the form
TenFields == {"fullName", "email", "phone", "address", "city", "state", "zipCode",
              "cardNumber", "expiryDate", "cvv"}

\* every one of the ten fields passes its validator
FieldsValid == \A field \in TenFields : validateField(formData, field, checkout.now).isValid

\* C25: a press of Place Order with an empty cart or with an invalid field
\* leaves the cart as it was, navigates nowhere and shows an alert; the
\* checkout clears the cart only after a press with a non-empty cart and ten
\* valid fields.
C25_PlaceOrderGuards ==
    /\ [][lastOp'.op = "handlePlaceOrder" =>
            /\ state' = state
            /\ pendingWrites' = pendingWrites
            /\ router' = router
            /\ IF state.items # << >> /\ FieldsValid
               THEN checkout'.pc = "paying" /\ alert' = alert
               ELSE /\ checkout' = checkout
                    /\ alert'.isVisible
                    /\ alert'.alertConfig \in
                            { << AlertConfig("Error", "Your cart is empty", "undefined") >>,
                              << AlertConfig("Validation Error",
                                    "Please fill in all required fields correctly",
                                    "undefined") >> }]_vars
    /\ [][(checkout.mounted /\ state' # state) =>
            /\ lastOp'.op = "paymentResolves"
            /\ checkout.pc = "paying"
            /\ state'.items = << >>]_vars
    /\ [][(checkout'.pc = "paying" /\ checkout.pc # "paying") =>
            lastOp'.op = "handlePlaceOrder"]_vars
    /\ [](LET order == handlePlaceOrder(<< >>, formData, checkout.now)
          IN  ~order.pay /\ order.title = "Error")

\* Place Order pressed with a cart of one line and a form in which only the
\* CVV is missing: the validation alert is up and the cart is as it was
C25_Witness ==
    /\ lastOp.op = "handlePlaceOrder"
    /\ Len(state.items) = 1
    /\ state = prev
    /\ \A field \in TenFields \ {"cvv"} :
            validateField(formData, field, checkout.now).isValid
    /\ ~validateField(formData, "cvv", checkout.now).isValid
    /\ alert.isVisible
    /\ checkout.pc = "idle"
    /\ router = << >>

\* C26: after a successful order the cart is empty and the last navigation is
\* the one to the order-success screen: the empty-cart redirect of the checkout
\* screen does not come after it.
C26_SuccessScreenStays ==
    lastOp.op \in {"paymentResolves", "checkoutRender", "checkoutUnmounts"} =>
        /\ state.items = << >>
        /\ router # << >>
        /\ router[Len(router)] = "/order-success"

\* what holds of a call of retry at every moment
C27_RetryBounded ==
    /\ retryRun.calls <= retryRun.maxRetries
    /\ retryRun.inFlight <= 1
    /\ retryRun.pc = "awaitFn" <=> retryRun.inFlight = 1
    /\ retryRun.pc = "returned" =>
            /\ retryRun.result \in FnValues
            /\ Len(retryRun.failures) = retryRun.calls - 1
    /\ retryRun.pc = "thrown" =>
            /\ retryRun.calls = retryRun.maxRetries
            /\ Len(retryRun.failures) = retryRun.maxRetries
            /\ retryRun.thrown.type = "UNKNOWN_ERROR"
            /\ retryRun.maxRetries >= 1 =>
                    retryRun.thrown.originalError =
                        retryRun.failures[Len(retryRun.failures)]

\* C27: retry invokes fn at most maxRetries times, one invocation at a time;
\* it returns the value of the first invocation that succeeds and invokes fn no
\* more; when all maxRetries invocations fail it throws an error that wraps the
\* last failure; it terminates.
C27_RetryTerminates ==
    /\ []C27_RetryBounded
    /\ [][retryRun.pc \in {"returned", "thrown"} => retryRun' = retryRun]_vars
    /\ (retryRun.pc \in {"awaitFn", "delay"}) ~> (retryRun.pc \in {"returned", "thrown"})

\* retry(fn, 3, 1000) has thrown after three failures, the last of them wrapped
C27_Witness ==
    /\ retryRun.pc = "thrown"
    /\ retryRun.maxRetries = 3
    /\ retryRun.calls = 3
    /\ retryRun.failures = << "E1", "E1", "E2" >>
    /\ retryRun.thrown.originalError = "E2"
    /\ retryRun.waited = 3000

\* C28: when the onPress of an alert button calls showAlert, the alert it asked
\* for is on screen, with its title and message, once the press is handled.
C28_AlertFromButtonVisible ==
    (lastOp.op = "handleButtonPress" /\ lastOp.id \in {"Clear", "Logout"}) =>
        /\ alert.isVisible
        /\ alert.alertConfig = alert.shown
        /\ alert.alertConfig # << >>
        /\ alert.alertConfig[1].title = "Success"

\* C29: whenever isVisible is true, alertConfig is not null and holds the
\* arguments of the most recent showAlert call.
C29_VisibleAlertHasConfig ==
    alert.isVisible => (alert.alertConfig # << >> /\ alert.alertConfig = alert.shown)

\* C30: after setThemeMode(m) or toggleTheme the mode stays the chosen one until
\* the next such call; the load of the saved preference started at mount does
\* not overwrite a choice made before it completes.
C30_ChosenThemeStays == theme.chosen # "none" => theme.mode = theme.chosen

====
